---- MODULE Spec2Model ----
(***************************************************************************)
(* Model of interval_timer.c: main(), load_intervals(), the X11 / ALSA /   *)
(* DPMS set-up and clean-up functions, signal_handler() and                *)
(* check_x11_keypress().                                                   *)
(*                                                                         *)
(* Input lines are modelled as sequences of whitespace separated tokens.   *)
(* Every modelled line is shorter than the 256 byte fgets buffer and every *)
(* token shorter than MAX_LABEL_LENGTH, so one fgets call reads one line   *)
(* and strncpy copies the label unchanged.                                 *)
(***************************************************************************)
EXTENDS Integers, Sequences, FiniteSets, TLC

(* ---------------- program constants ---------------- *)
MAX_INTERVALS == 100
\* passes of the beep loop and frames in the tone buffer
BEEP_COUNT == 5
BEEP_FRAMES == 13230

(* ---------------- bounds of the model ---------------- *)
MaxLines == 1
MaxLoadLines == 2
MaxDur == 2
MaxQueue == 2
CapExtra == 2

VARIABLES
  argc, file, filePos,
  pc, exit_code,
  intervals, count,
  current_interval, time_remaining,
  total_training_time, elapsed_training_time,
  running,
  display, window, surface, cr, audio_handle,
  xqueue,
  acq, rel,
  visited, alerted, skipAt,
  stopDraws, stopDecs, cleanups, startElapsed,
  beep, frames, writes, drains

vars == << argc, file, filePos, pc, exit_code, intervals, count,
           current_interval, time_remaining, total_training_time,
           elapsed_training_time, running, display, window, surface,
           cr, audio_handle, xqueue, acq, rel, visited, alerted, skipAt,
           stopDraws, stopDecs, cleanups, startElapsed, beep, frames,
           writes, drains >>

loadVars == << intervals, count, total_training_time, filePos >>
sessionVars == << current_interval, time_remaining, elapsed_training_time >>
x11Vars == << display, window, surface, cr >>
beepVars == << beep, frames, writes, drains >>
ghostVars == << visited, alerted, skipAt, stopDraws, stopDecs, cleanups,
               startElapsed, beepVars >>

(* ---------------- input files ---------------- *)
NoFile == << "ENOENT" >>

Word(id) == [num |-> FALSE, val |-> id]
Num(n) == [num |-> TRUE, val |-> n]

DurSet == (-1)..MaxDur

\* the shapes of a line whose first token is the word `id`
LineKinds(id) ==
  { << >>, << Word(id) >>, << Word(id), Word(0) >> }
    \cup { << Word(id), Num(d) >> : d \in DurSet }

\* the lines of the files a session is run on: all malformed lines are alike
\* to main, and so are all positive durations but for the number of ticks
SessionKinds(id) ==
  { << Word(id) >> } \cup { << Word(id), Num(d) >> : d \in { -1, 0, MaxDur } }

SessionFiles ==
  UNION { { f \in [1..n -> UNION { SessionKinds(i) : i \in 1..n }] :
              \A i \in 1..n : f[i] \in SessionKinds(i) } : n \in 0..MaxLines }

ShortFiles ==
  UNION { { f \in [1..n -> UNION { LineKinds(i) : i \in 1..n }] :
              \A i \in 1..n : f[i] \in LineKinds(i) } : n \in 0..MaxLoadLines }

\* Warmup 5 / Sprint 3 / Rest 2
ScenarioA == << << Word(1), Num(5) >>, << Word(2), Num(3) >>, << Word(3), Num(2) >> >>

\* Warmup 2 / a line without a duration / Rest -1 / Stretch 0
ScenarioMixed ==
  << << Word(1), Num(2) >>, << Word(2) >>, << Word(3), Num(-1) >>, << Word(4), Num(0) >> >>

BadSpots == { 1, 2, MAX_INTERVALS }

\* a file of n lines, well formed except for the lines at the positions in bad
LongFile(n, bad) ==
  [ i \in 1..n |-> IF i \in bad THEN (IF i % 2 = 0 THEN << Word(i) >> ELSE << Word(i), Word(0) >>)
                   ELSE << Word(i), Num((i % MaxDur) + 1) >> ]

LongFiles ==
  { LongFile(n, bad) : n \in (MAX_INTERVALS - 1)..(MAX_INTERVALS + CapExtra),
                       bad \in SUBSET BadSpots }

(* ---------------- pure helpers ---------------- *)
\* sscanf(line, "%s %d", label, &duration)
sscanf(line) ==
  IF Len(line) = 0 THEN [n |-> -1, label |-> Word(0), duration |-> 0]
  ELSE IF Len(line) >= 2 /\ line[2].num
       THEN [n |-> 2, label |-> line[1], duration |-> line[2].val]
       ELSE [n |-> 1, label |-> line[1], duration |-> 0]

ZeroInterval == [label |-> Word(0), duration |-> 0]

Resources == { "display", "window", "surface", "cr", "audio", "dpms" }

(* ---------------- initial state ---------------- *)
InitGlobals ==
  /\ filePos = 0
  /\ exit_code = -1
  /\ intervals = [i \in 0..(MAX_INTERVALS - 1) |-> ZeroInterval]
  /\ count = 0
  /\ current_interval = 0
  /\ time_remaining = 0
  /\ total_training_time = 0
  /\ elapsed_training_time = 0
  /\ running = TRUE
  /\ display = FALSE
  /\ window = FALSE
  /\ surface = FALSE
  /\ cr = FALSE
  /\ audio_handle = FALSE
  /\ xqueue = << >>
  /\ acq = [r \in Resources |-> 0]
  /\ rel = [r \in Resources |-> 0]
  /\ visited = << >>
  /\ alerted = << >>
  /\ skipAt = {}
  /\ stopDraws = 0
  /\ stopDecs = 0
  /\ cleanups = << >>
  /\ startElapsed = 0
  /\ beep = 0
  /\ frames = 0
  /\ writes = 0
  /\ drains = 0

Init ==
  /\ argc \in 1..2
  /\ file \in SessionFiles \cup { ScenarioA, ScenarioMixed, NoFile }
  /\ pc = "main"
  /\ InitGlobals

InitLoad ==
  /\ argc = 2
  /\ file \in ShortFiles \cup LongFiles \cup { NoFile }
  /\ pc = "load_intervals"
  /\ InitGlobals

(* ---------------- load_intervals ---------------- *)
LoadOpen ==
  /\ pc = "load_intervals"
  /\ IF file = NoFile
     THEN /\ pc' = "check_count"
          /\ UNCHANGED loadVars
     ELSE /\ pc' = "load_loop"
          /\ count' = 0
          /\ total_training_time' = 0
          /\ filePos' = 0
          /\ UNCHANGED intervals
  /\ UNCHANGED << argc, file, exit_code, sessionVars, running, x11Vars,
                  audio_handle, xqueue, acq, rel, ghostVars >>

\* LoadLine with total_training_time assigned instead of accumulated
LoadLine_TotalAssigned ==
  /\ pc = "load_loop"
  /\ IF filePos >= Len(file)
     THEN /\ pc' = "load_close"
          /\ UNCHANGED loadVars
     ELSE /\ filePos' = filePos + 1
          /\ IF count < MAX_INTERVALS
             THEN LET r == sscanf(file[filePos + 1]) IN
                  /\ pc' = "load_loop"
                  /\ IF r.n = 2
                     THEN /\ intervals' = [intervals EXCEPT ![count] =
                                 [label |-> r.label, duration |-> r.duration]]
                          /\ total_training_time' = r.duration
                          /\ count' = count + 1
                     ELSE UNCHANGED << intervals, total_training_time, count >>
             ELSE /\ pc' = "load_close"
                  /\ UNCHANGED << intervals, total_training_time, count >>
  /\ UNCHANGED << argc, file, exit_code, sessionVars, running, x11Vars,
                  audio_handle, xqueue, acq, rel, ghostVars >>

\* LoadLine with count incremented for every line read
LoadLine_CountsEveryLine ==
  /\ pc = "load_loop"
  /\ IF filePos >= Len(file)
     THEN /\ pc' = "load_close"
          /\ UNCHANGED loadVars
     ELSE /\ filePos' = filePos + 1
          /\ IF count < MAX_INTERVALS
             THEN LET r == sscanf(file[filePos + 1]) IN
                  /\ pc' = "load_loop"
                  /\ count' = count + 1
                  /\ IF r.n = 2
                     THEN /\ intervals' = [intervals EXCEPT ![count] =
                                 [label |-> r.label, duration |-> r.duration]]
                          /\ total_training_time' = total_training_time + r.duration
                     ELSE UNCHANGED << intervals, total_training_time >>
             ELSE /\ pc' = "load_close"
                  /\ UNCHANGED << intervals, total_training_time, count >>
  /\ UNCHANGED << argc, file, exit_code, sessionVars, running, x11Vars,
                  audio_handle, xqueue, acq, rel, ghostVars >>

\* one evaluation of the while condition and, when it holds, one loop body
LoadLine ==
  /\ pc = "load_loop"
  /\ IF filePos >= Len(file)
     THEN /\ pc' = "load_close"
          /\ UNCHANGED loadVars
     ELSE /\ filePos' = filePos + 1
          /\ IF count < MAX_INTERVALS
             THEN LET r == sscanf(file[filePos + 1]) IN
                  /\ pc' = "load_loop"
                  /\ IF r.n = 2
                     THEN /\ intervals' = [intervals EXCEPT ![count] =
                                 [label |-> r.label, duration |-> r.duration]]
                          /\ total_training_time' = total_training_time + r.duration
                          /\ count' = count + 1
                     ELSE UNCHANGED << intervals, total_training_time, count >>
             ELSE /\ pc' = "load_close"
                  /\ UNCHANGED << intervals, total_training_time, count >>
  /\ UNCHANGED << argc, file, exit_code, sessionVars, running, x11Vars,
                  audio_handle, xqueue, acq, rel, ghostVars >>

LoadClose ==
  /\ pc = "load_close"
  /\ pc' = "check_count"
  /\ UNCHANGED << argc, file, exit_code, loadVars, sessionVars, running, x11Vars,
                  audio_handle, xqueue, acq, rel, ghostVars >>

NextLoad == LoadOpen \/ LoadLine \/ LoadClose

SpecLoad == InitLoad /\ [][NextLoad]_vars

(* ---------------- X events and check_x11_keypress ---------------- *)
KeyPress(len, ch, sym) == [type |-> "KeyPress", len |-> len, ch |-> ch, sym |-> sym]
OtherEvent(type, sym) == [type |-> type, len |-> 0, ch |-> 0, sym |-> sym]

Key_q == KeyPress(1, 113, "XK_q")
Key_Q == KeyPress(1, 81, "XK_Q")
Key_s == KeyPress(1, 115, "XK_s")
Key_S == KeyPress(1, 83, "XK_S")
Key_x == KeyPress(1, 120, "XK_x")
Key_Esc == KeyPress(0, 0, "XK_Escape")
Key_Shift == KeyPress(0, 0, "XK_Shift_L")
WmDelete == OtherEvent("ClientMessage", "WM_DELETE_WINDOW")
Expose == OtherEvent("Expose", "")

\* the events the environment queues in this model
EventInputs == { Key_q, Key_s, Key_x, Key_Esc, Expose }

\* the sequences of at most n events
EventBursts(n) == UNION { [1..k -> EventInputs] : k \in 0..n }

QuitKeys == { 113, 81, 27 }
SkipKeys == { 115, 83 }

\* the while (XPending) loop of check_x11_keypress: the key returned and the
\* events left in the queue
RECURSIVE DrainEvents(_)
DrainEvents(q) ==
  IF q = << >> THEN [key |-> 0, rest |-> << >>]
  ELSE LET e == Head(q) IN
       IF e.type = "KeyPress"
       THEN IF e.len > 0 THEN [key |-> e.ch, rest |-> Tail(q)]
            ELSE IF e.sym = "XK_Escape" THEN [key |-> 27, rest |-> Tail(q)]
            ELSE DrainEvents(Tail(q))
       ELSE IF e.type = "ClientMessage"
       THEN IF e.sym = "WM_DELETE_WINDOW" THEN [key |-> 113, rest |-> Tail(q)]
            ELSE DrainEvents(Tail(q))
       ELSE DrainEvents(Tail(q))

check_x11_keypress(q) ==
  IF ~display THEN [key |-> 0, rest |-> q] ELSE DrainEvents(q)

(* ---------------- main: start-up ---------------- *)
inputVars == << argc, file >>
devVars == << display, window, surface, cr, audio_handle >>

\* lines 70-83: the argument check and the registration of signal_handler
MainArgs ==
  /\ pc = "main"
  /\ IF argc # 2
     THEN pc' = "exit" /\ exit_code' = 1
     ELSE pc' = "load_intervals" /\ UNCHANGED exit_code
  /\ UNCHANGED << inputVars, loadVars, sessionVars, running, devVars, xqueue,
                  acq, rel, ghostVars >>

\* CheckCount without the early return
CheckCount_NoExit ==
  /\ pc = "check_count"
  /\ pc' = "setup_x11_window"
  /\ UNCHANGED << inputVars, exit_code, loadVars, sessionVars, running,
                  devVars, xqueue, acq, rel, ghostVars >>

\* lines 88-91
CheckCount ==
  /\ pc = "check_count"
  /\ IF count = 0
     THEN pc' = "exit" /\ exit_code' = 1
     ELSE pc' = "setup_x11_window" /\ UNCHANGED exit_code
  /\ UNCHANGED << inputVars, loadVars, sessionVars, running, devVars, xqueue,
                  acq, rel, ghostVars >>

X11Outcomes == { "no_display", "bad_dimensions", "no_visual", "no_window", "ok" }

\* setup_x11_window: every failure after XOpenDisplay closes the display again
SetupX11Window ==
  /\ pc = "setup_x11_window"
  /\ \E outcome \in X11Outcomes :
       IF outcome = "no_display"
       THEN UNCHANGED << display, window, surface, cr, acq, rel >>
       ELSE IF outcome # "ok"
       THEN /\ acq' = [acq EXCEPT !["display"] = @ + 1]
            /\ rel' = [rel EXCEPT !["display"] = @ + 1]
            /\ display' = FALSE
            /\ UNCHANGED << window, surface, cr >>
       ELSE /\ acq' = [r \in Resources |->
                         IF r \in { "display", "window", "surface", "cr" }
                         THEN acq[r] + 1 ELSE acq[r]]
            /\ display' = TRUE
            /\ window' = TRUE
            /\ surface' = TRUE
            /\ cr' = TRUE
            /\ UNCHANGED rel
  /\ pc' = "check_display"
  /\ UNCHANGED << inputVars, exit_code, loadVars, sessionVars, running,
                  audio_handle, xqueue, ghostVars >>

\* lines 95-98
CheckDisplay ==
  /\ pc = "check_display"
  /\ IF ~display
     THEN pc' = "exit" /\ exit_code' = 1
     ELSE pc' = "setup_audio" /\ UNCHANGED exit_code
  /\ UNCHANGED << inputVars, loadVars, sessionVars, running, devVars, xqueue,
                  acq, rel, ghostVars >>

AudioOutcomes == { "open_fails", "hw_params_fails", "prepare_fails", "ok" }

\* SetupAudio keeping the closed handle when hw_params or prepare fails
SetupAudio_KeepsHandle ==
  /\ pc = "setup_audio"
  /\ \E outcome \in AudioOutcomes :
       IF outcome = "open_fails"
       THEN audio_handle' = FALSE /\ UNCHANGED << acq, rel >>
       ELSE IF outcome # "ok"
       THEN /\ acq' = [acq EXCEPT !["audio"] = @ + 1]
            /\ rel' = [rel EXCEPT !["audio"] = @ + 1]
            /\ audio_handle' = TRUE
       ELSE /\ acq' = [acq EXCEPT !["audio"] = @ + 1]
            /\ audio_handle' = TRUE
            /\ UNCHANGED rel
  /\ pc' = "prevent_screen_sleep"
  /\ UNCHANGED << inputVars, exit_code, loadVars, sessionVars, running,
                  x11Vars, xqueue, ghostVars >>

\* setup_audio: a failure after snd_pcm_open closes the handle again
SetupAudio ==
  /\ pc = "setup_audio"
  /\ \E outcome \in AudioOutcomes :
       IF outcome = "open_fails"
       THEN audio_handle' = FALSE /\ UNCHANGED << acq, rel >>
       ELSE IF outcome # "ok"
       THEN /\ acq' = [acq EXCEPT !["audio"] = @ + 1]
            /\ rel' = [rel EXCEPT !["audio"] = @ + 1]
            /\ audio_handle' = FALSE
       ELSE /\ acq' = [acq EXCEPT !["audio"] = @ + 1]
            /\ audio_handle' = TRUE
            /\ UNCHANGED rel
  /\ pc' = "prevent_screen_sleep"
  /\ UNCHANGED << inputVars, exit_code, loadVars, sessionVars, running,
                  x11Vars, xqueue, ghostVars >>

\* prevent_screen_sleep: DPMSDisable
PreventScreenSleep ==
  /\ pc = "prevent_screen_sleep"
  /\ IF display
     THEN acq' = [acq EXCEPT !["dpms"] = @ + 1]
     ELSE UNCHANGED acq
  /\ pc' = "init_elapsed"
  /\ UNCHANGED << inputVars, exit_code, loadVars, sessionVars, running,
                  devVars, xqueue, rel, ghostVars >>

\* InitElapsed setting running again with the other loop variables
InitElapsed_SetsRunning ==
  /\ pc = "init_elapsed"
  /\ elapsed_training_time' = 0
  /\ running' = TRUE
  /\ pc' = "while_outer"
  /\ UNCHANGED << inputVars, exit_code, loadVars, current_interval,
                  time_remaining, devVars, xqueue, acq, rel, ghostVars >>

\* line 107
InitElapsed ==
  /\ pc = "init_elapsed"
  /\ elapsed_training_time' = 0
  /\ pc' = "while_outer"
  /\ UNCHANGED << inputVars, exit_code, loadVars, current_interval,
                  time_remaining, running, devVars, xqueue, acq, rel,
                  ghostVars >>

(* ---------------- main: the timer loop ---------------- *)
\* line 108
WhileOuter ==
  /\ pc = "while_outer"
  /\ pc' = IF running /\ current_interval < count
           THEN "start_interval" ELSE "allow_screen_sleep"
  /\ UNCHANGED << inputVars, exit_code, loadVars, sessionVars, running,
                  devVars, xqueue, acq, rel, ghostVars >>

\* lines 109-110
StartInterval ==
  /\ pc = "start_interval"
  /\ time_remaining' = intervals[current_interval].duration
  /\ visited' = Append(visited, current_interval)
  /\ startElapsed' = elapsed_training_time
  /\ pc' = "while_inner"
  /\ UNCHANGED << inputVars, exit_code, loadVars, current_interval,
                  elapsed_training_time, running, devVars, xqueue, acq,
                  rel, alerted, skipAt, stopDraws, stopDecs, cleanups,
                  beepVars >>

\* WhileInner with the test of running left out
WhileInner_NoRunningTest ==
  /\ pc = "while_inner"
  /\ pc' = IF time_remaining > 0 THEN "draw_timer" ELSE "if_running"
  /\ UNCHANGED << inputVars, exit_code, loadVars, sessionVars, running,
                  devVars, xqueue, acq, rel, ghostVars >>

\* line 112
WhileInner ==
  /\ pc = "while_inner"
  /\ pc' = IF time_remaining > 0 /\ running THEN "draw_timer" ELSE "if_running"
  /\ UNCHANGED << inputVars, exit_code, loadVars, sessionVars, running,
                  devVars, xqueue, acq, rel, ghostVars >>

\* lines 113-116
DrawTimer ==
  /\ pc = "draw_timer"
  /\ stopDraws' = IF running THEN stopDraws ELSE stopDraws + 1
  /\ pc' = "sleep"
  /\ UNCHANGED << inputVars, exit_code, loadVars, sessionVars, running,
                  devVars, xqueue, acq, rel, visited, alerted, skipAt,
                  stopDecs, cleanups,
                  startElapsed, beepVars >>

\* Sleep followed by the poll, with the two counters left as they are
Sleep_ThenPoll ==
  /\ pc = "sleep"
  /\ pc' = "poll"
  /\ UNCHANGED << inputVars, exit_code, loadVars, sessionVars, running,
                  devVars, xqueue, acq, rel, ghostVars >>

\* line 118
Sleep ==
  /\ pc = "sleep"
  /\ pc' = "dec_time"
  /\ UNCHANGED << inputVars, exit_code, loadVars, sessionVars, running,
                  devVars, xqueue, acq, rel, ghostVars >>

\* line 119
DecTime ==
  /\ pc = "dec_time"
  /\ time_remaining' = time_remaining - 1
  /\ stopDecs' = IF running THEN stopDecs ELSE stopDecs + 1
  /\ pc' = "inc_elapsed"
  /\ UNCHANGED << inputVars, exit_code, loadVars, current_interval,
                  elapsed_training_time, running, devVars, xqueue, acq,
                  rel, visited, alerted, skipAt, stopDraws, cleanups,
                  startElapsed, beepVars >>

\* line 120
IncElapsed ==
  /\ pc = "inc_elapsed"
  /\ elapsed_training_time' = elapsed_training_time + 1
  /\ pc' = "poll"
  /\ UNCHANGED << inputVars, exit_code, loadVars, current_interval,
                  time_remaining, running, devVars, xqueue, acq, rel,
                  ghostVars >>

\* Poll with the forfeited seconds of a skipped interval added to
\* elapsed_training_time
Poll_SkipAddsRemaining ==
  /\ pc = "poll"
  /\ \E arrived \in EventBursts(IF display THEN MaxQueue - Len(xqueue) ELSE 0) :
       LET r == check_x11_keypress(xqueue \o arrived) IN
         /\ xqueue' = r.rest
         /\ IF r.key \in QuitKeys
            THEN /\ running' = FALSE /\ pc' = "if_running"
                 /\ UNCHANGED << skipAt, elapsed_training_time >>
            ELSE IF r.key \in SkipKeys
            THEN /\ pc' = "if_running"
                 /\ skipAt' = skipAt \cup { current_interval }
                 /\ elapsed_training_time' = elapsed_training_time + time_remaining
                 /\ UNCHANGED running
            ELSE /\ pc' = "while_inner"
                 /\ UNCHANGED << running, skipAt, elapsed_training_time >>
  /\ UNCHANGED << inputVars, exit_code, loadVars, current_interval,
                  time_remaining, devVars, acq, rel,
                  visited, alerted, stopDraws, stopDecs, cleanups,
                  startElapsed, beepVars >>

\* lines 123-129.  The events pending at the call are those the previous polls
\* left in the queue followed by those that arrived since the last poll.
Poll ==
  /\ pc = "poll"
  /\ \E arrived \in EventBursts(IF display THEN MaxQueue - Len(xqueue) ELSE 0) :
       LET r == check_x11_keypress(xqueue \o arrived) IN
         /\ xqueue' = r.rest
         /\ IF r.key \in QuitKeys
            THEN running' = FALSE /\ pc' = "if_running" /\ UNCHANGED skipAt
            ELSE IF r.key \in SkipKeys
            THEN /\ pc' = "if_running"
                 /\ skipAt' = skipAt \cup { current_interval }
                 /\ UNCHANGED running
            ELSE pc' = "while_inner" /\ UNCHANGED << running, skipAt >>
  /\ UNCHANGED << inputVars, exit_code, loadVars, current_interval,
                  time_remaining, elapsed_training_time, devVars, acq, rel,
                  visited, alerted, stopDraws, stopDecs, cleanups,
                  startElapsed, beepVars >>

\* IfRunning advancing past a skipped interval without the alert sequence
IfRunning_SkipAdvancesSilently ==
  /\ pc = "if_running"
  /\ pc' = IF ~running THEN "while_outer"
           ELSE IF current_interval \in skipAt THEN "next_interval"
           ELSE "flash_screen"
  /\ UNCHANGED << inputVars, exit_code, loadVars, sessionVars, running,
                  devVars, xqueue, acq, rel, ghostVars >>

\* IfRunning with the test of running left out
IfRunning_NoTest ==
  /\ pc = "if_running"
  /\ pc' = "flash_screen"
  /\ UNCHANGED << inputVars, exit_code, loadVars, sessionVars, running,
                  devVars, xqueue, acq, rel, ghostVars >>

\* line 132
IfRunning ==
  /\ pc = "if_running"
  /\ pc' = IF running THEN "flash_screen" ELSE "while_outer"
  /\ UNCHANGED << inputVars, exit_code, loadVars, sessionVars, running,
                  devVars, xqueue, acq, rel, ghostVars >>

\* line 134: the first step of the alert sequence
FlashScreen ==
  /\ pc = "flash_screen"
  /\ alerted' = Append(alerted, current_interval)
  /\ pc' = "reset_audio"
  /\ UNCHANGED << inputVars, exit_code, loadVars, sessionVars, running,
                  devVars, xqueue, acq, rel, visited, skipAt, stopDraws,
                  stopDecs, cleanups,
                  startElapsed, beepVars >>

\* line 135
ResetAudio ==
  /\ pc = "reset_audio"
  /\ pc' = "play_beep"
  /\ UNCHANGED << inputVars, exit_code, loadVars, sessionVars, running,
                  devVars, xqueue, acq, rel, ghostVars >>

\* lines 327-339: without a device play_beep returns at once; otherwise the
\* device is reset, the tone is synthesised and the beep loop is entered
PlayBeep ==
  /\ pc = "play_beep"
  /\ IF audio_handle
     THEN pc' = "beep_loop" /\ beep' = 0
     ELSE pc' = "draw_completion_message" /\ beep' = beep
  /\ UNCHANGED << inputVars, exit_code, loadVars, sessionVars, running,
                  devVars, xqueue, acq, rel, visited, alerted, skipAt,
                  stopDraws, stopDecs, cleanups, startElapsed, frames,
                  writes, drains >>

\* results of snd_pcm_writei (an error code, or the frames written) and of
\* snd_pcm_recover (an error code, or 0)
WriteResults == { -1, BEEP_FRAMES }
RecoverResults == { -1, 0 }

\* BeepIteration writing a third time when the retry fails as well
BeepIteration_RetriesAgain ==
  /\ pc = "beep_loop"
  /\ beep < BEEP_COUNT
  /\ \E first \in WriteResults, recovered \in RecoverResults,
        second \in WriteResults, third \in WriteResults :
       LET retried == first < 0 /\ recovered >= 0
           again   == retried /\ second < 0
           last    == IF again THEN third ELSE IF retried THEN second ELSE first
       IN  /\ frames' = last
           /\ writes' = IF again THEN 3 ELSE IF retried THEN 2 ELSE 1
           /\ drains' = IF last >= 0 THEN 1 ELSE 0
  /\ beep' = beep + 1
  /\ UNCHANGED << inputVars, pc, exit_code, loadVars, sessionVars, running,
                  devVars, xqueue, acq, rel, visited, alerted, skipAt,
                  stopDraws, stopDecs, cleanups, startElapsed >>

\* lines 341-360: one pass of the beep loop.  writes and drains count the
\* snd_pcm_writei and snd_pcm_drain calls of this pass.
BeepIteration ==
  /\ pc = "beep_loop"
  /\ beep < BEEP_COUNT
  /\ \E first \in WriteResults, recovered \in RecoverResults,
        second \in WriteResults :
       LET retried == first < 0 /\ recovered >= 0
           last    == IF retried THEN second ELSE first
       IN  /\ frames' = last
           /\ writes' = IF retried THEN 2 ELSE 1
           /\ drains' = IF last >= 0 THEN 1 ELSE 0
  /\ beep' = beep + 1
  /\ UNCHANGED << inputVars, pc, exit_code, loadVars, sessionVars, running,
                  devVars, xqueue, acq, rel, visited, alerted, skipAt,
                  stopDraws, stopDecs, cleanups, startElapsed >>

\* lines 341, 362: the loop test fails and play_beep returns; its locals die
PlayBeepReturn ==
  /\ pc = "beep_loop"
  /\ ~(beep < BEEP_COUNT)
  /\ beep' = 0 /\ frames' = 0 /\ writes' = 0 /\ drains' = 0
  /\ pc' = "draw_completion_message"
  /\ UNCHANGED << inputVars, exit_code, loadVars, sessionVars, running,
                  devVars, xqueue, acq, rel, visited, alerted, skipAt,
                  stopDraws, stopDecs, cleanups, startElapsed >>

\* line 139
DrawCompletionMessage ==
  /\ pc = "draw_completion_message"
  /\ pc' = "next_interval"
  /\ UNCHANGED << inputVars, exit_code, loadVars, sessionVars, running,
                  devVars, xqueue, acq, rel, ghostVars >>

\* NextInterval stepping over one more interval after a skip
NextInterval_SkipTwice ==
  /\ pc = "next_interval"
  /\ current_interval' = IF current_interval \in skipAt
                         THEN current_interval + 2 ELSE current_interval + 1
  /\ pc' = "while_outer"
  /\ UNCHANGED << inputVars, exit_code, loadVars, time_remaining,
                  elapsed_training_time, running, devVars, xqueue, acq,
                  rel, ghostVars >>

\* lines 142-148
NextInterval ==
  /\ pc = "next_interval"
  /\ current_interval' = current_interval + 1
  /\ pc' = "while_outer"
  /\ UNCHANGED << inputVars, exit_code, loadVars, time_remaining,
                  elapsed_training_time, running, devVars, xqueue, acq,
                  rel, ghostVars >>

(* ---------------- main: clean-up ---------------- *)
\* allow_screen_sleep: DPMSEnable
AllowScreenSleep ==
  /\ pc = "allow_screen_sleep"
  /\ IF display
     THEN rel' = [rel EXCEPT !["dpms"] = @ + 1]
     ELSE UNCHANGED rel
  /\ cleanups' = Append(cleanups, "allow_screen_sleep")
  /\ pc' = "cleanup_x11"
  /\ UNCHANGED << inputVars, exit_code, loadVars, sessionVars, running,
                  devVars, xqueue, acq, visited, alerted, skipAt, stopDraws,
                  stopDecs,
                  startElapsed, beepVars >>

\* cleanup_x11: destroys what is set; the globals keep their values
CleanupX11 ==
  /\ pc = "cleanup_x11"
  /\ rel' = [r \in Resources |->
               IF \/ (r = "cr" /\ cr)
                  \/ (r = "surface" /\ surface)
                  \/ (r = "window" /\ window)
                  \/ (r = "display" /\ display)
               THEN rel[r] + 1 ELSE rel[r]]
  /\ cleanups' = Append(cleanups, "cleanup_x11")
  /\ pc' = "cleanup_audio"
  /\ UNCHANGED << inputVars, exit_code, loadVars, sessionVars, running,
                  devVars, xqueue, acq, visited, alerted, skipAt, stopDraws,
                  stopDecs,
                  startElapsed, beepVars >>

\* CleanupAudio without the snd_pcm_close
CleanupAudio_Leak ==
  /\ pc = "cleanup_audio"
  /\ audio_handle' = FALSE
  /\ cleanups' = Append(cleanups, "cleanup_audio")
  /\ pc' = "return_0"
  /\ UNCHANGED << inputVars, exit_code, loadVars, sessionVars, running,
                  x11Vars, xqueue, acq, rel, visited, alerted, skipAt,
                  stopDraws, stopDecs,
                  startElapsed, beepVars >>

\* cleanup_audio
CleanupAudio ==
  /\ pc = "cleanup_audio"
  /\ IF audio_handle
     THEN /\ rel' = [rel EXCEPT !["audio"] = @ + 1]
          /\ audio_handle' = FALSE
     ELSE UNCHANGED << rel, audio_handle >>
  /\ cleanups' = Append(cleanups, "cleanup_audio")
  /\ pc' = "return_0"
  /\ UNCHANGED << inputVars, exit_code, loadVars, sessionVars, running,
                  x11Vars, xqueue, acq, visited, alerted, skipAt, stopDraws,
                  stopDecs,
                  startElapsed, beepVars >>

\* lines 157-158
Return0 ==
  /\ pc = "return_0"
  /\ pc' = "exit"
  /\ exit_code' = 0
  /\ UNCHANGED << inputVars, loadVars, sessionVars, running, devVars, xqueue,
                  acq, rel, ghostVars >>

(* ---------------- the environment ---------------- *)
\* signal_handler, run on SIGINT or SIGTERM at any point after line 83
signal_handler ==
  /\ pc \notin { "main", "exit" }
  /\ running' = FALSE
  /\ UNCHANGED << inputVars, pc, exit_code, loadVars, sessionVars, devVars,
                  xqueue, acq, rel, ghostVars >>

Next ==
  \/ MainArgs \/ LoadOpen \/ LoadLine \/ LoadClose \/ CheckCount
  \/ SetupX11Window \/ CheckDisplay \/ SetupAudio \/ PreventScreenSleep
  \/ InitElapsed \/ WhileOuter \/ StartInterval \/ WhileInner \/ DrawTimer
  \/ Sleep \/ DecTime \/ IncElapsed \/ Poll \/ IfRunning \/ FlashScreen
  \/ ResetAudio \/ PlayBeep \/ BeepIteration \/ PlayBeepReturn
  \/ DrawCompletionMessage \/ NextInterval
  \/ AllowScreenSleep \/ CleanupX11 \/ CleanupAudio \/ Return0
  \/ signal_handler

Spec == Init /\ [][Next]_vars

(* ---------------- definitions used by the properties ---------------- *)
Min(a, b) == IF a < b THEN a ELSE b

\* a line of the form <label> <integer>
IsValidLine(line) == Len(line) >= 2 /\ line[2].num

ValidLines(f) == SelectSeq(f, IsValidLine)

WellFormed(f) == \A i \in 1..Len(f) : IsValidLine(f[i])

RECURSIVE SumDurations(_, _)
SumDurations(f, n) == IF n = 0 THEN 0 ELSE SumDurations(f, n - 1) + f[n][2].val

\* the entries 0..n-1 of the array are the first n lines of f
StoredInOrder(f, n) ==
  \A i \in 0..(n - 1) :
    intervals[i] = [label |-> f[i + 1][1], duration |-> f[i + 1][2].val]

Loaded == pc \notin { "main", "load_intervals", "load_loop", "load_close" }

AfterFlashPcs == { "reset_audio", "play_beep", "beep_loop", "draw_completion_message",
                   "next_interval" }

CleanupSequence == << "allow_screen_sleep", "cleanup_x11", "cleanup_audio" >>

UpTo(n) == [i \in 1..n |-> i - 1]

(* ---------------- C1 ---------------- *)
\* C1: an interval that is skipped while time remains gets no alert: the
\* alert sequence is never under way for an interval left by the skip key.
C1_SkipFiresNoAlert ==
  ~(pc \in AfterFlashPcs /\ current_interval \in skipAt /\ time_remaining > 0)

(* ---------------- C2 ---------------- *)
\* C2 as stated: once running is false (quit key or signal, at any point),
\* flash_screen is not run any more.
C2_NoAlertOnceStopped ==
  [][~running => ~(pc = "flash_screen" /\ pc' = "reset_audio")]_vars

\* C2 as amended: once running is false, control never arrives at the alert
\* sequence nor at the start of an interval, and every loop test that is
\* evaluated leaves its loop.
C2_NoAlertDecidedOnceStopped ==
  [][~running =>
       /\ (pc' = "flash_screen" => pc = "flash_screen")
       /\ (pc' = "start_interval" => pc = "start_interval")
       /\ (pc = "while_inner" /\ pc' # pc => pc' = "if_running")
       /\ (pc = "if_running" /\ pc' # pc => pc' = "while_outer")
       /\ (pc = "while_outer" /\ pc' # pc => pc' = "allow_screen_sleep")]_vars

\* the loops were left in the middle of an interval and no alert was fired
C2_Witness ==
  /\ pc = "allow_screen_sleep"
  /\ ~running
  /\ time_remaining > 0
  /\ visited # << >>
  /\ alerted = << >>

(* ---------------- C3 ---------------- *)
\* C3: once running is false at most one more frame is drawn and at most one
\* more decrement of time_remaining is made, and a run that returns 0 has
\* called allow_screen_sleep, cleanup_x11, cleanup_audio once each, in order.
C3_QuitWithinOneTick ==
  /\ stopDraws <= 1
  /\ stopDecs <= 1
  /\ \E n \in 0..3 : cleanups = SubSeq(CleanupSequence, 1, n)
  /\ (pc = "exit" /\ exit_code = 0 => cleanups = CleanupSequence)

\* a signal taken mid-interval, one more tick, then the clean-up
C3_Witness ==
  /\ pc = "exit"
  /\ ~running
  /\ stopDecs = 1
  /\ time_remaining > 0
  /\ cleanups = CleanupSequence

(* ---------------- C4 ---------------- *)
\* C4: no resource is acquired twice or released without having been
\* acquired, and when main has returned every acquired resource has been
\* released.
C4_AcquireReleaseBalanced ==
  \A r \in Resources :
    /\ rel[r] <= acq[r]
    /\ acq[r] <= 1
    /\ (pc = "exit" => rel[r] = acq[r])

\* a session that held every resource and has returned
C4_Witness ==
  /\ pc = "exit"
  /\ exit_code = 0
  /\ \A r \in Resources : acq[r] = 1 /\ rel[r] = 1

(* ---------------- C5 ---------------- *)
\* C5: with a file that cannot be opened, is empty or has no well formed
\* line, nothing is ever acquired, the set-up functions are never reached
\* and main returns 1.
C5_NoIntervalsExitOne ==
  (file = NoFile \/ ValidLines(file) = << >>) =>
    /\ \A r \in Resources : acq[r] = 0
    /\ pc \in { "main", "load_intervals", "load_loop", "load_close", "check_count", "exit" }
    /\ (pc = "exit" => exit_code = 1)

\* a file of malformed lines only was read and main has returned
C5_Witness ==
  /\ pc = "exit"
  /\ argc = 2
  /\ file # NoFile
  /\ Len(file) > 0
  /\ ValidLines(file) = << >>
  /\ filePos = Len(file)

(* ---------------- C6 ---------------- *)
\* C6: every stored interval has a positive duration.
C6_StoredDurationsPositive ==
  \A i \in 0..(count - 1) : intervals[i].duration > 0

(* ---------------- C7 ---------------- *)
\* C7: after the load, total_training_time is 0 exactly when no interval
\* is loaded.
C7_TotalZeroIffEmpty ==
  Loaded => (total_training_time = 0 <=> count = 0)

(* ---------------- C8 ---------------- *)
\* C8 as stated: a well formed file of N lines loads as exactly N entries,
\* in file order, with total_training_time the sum of their durations.
C8_ExactlyN ==
  (pc = "check_count" /\ file # NoFile /\ WellFormed(file)) =>
    /\ count = Len(file)
    /\ StoredInOrder(file, count)
    /\ total_training_time = SumDurations(file, Len(file))

\* C8 as amended: a well formed file of N lines loads as its first
\* min(N, MAX_INTERVALS) lines, in file order, with total_training_time the
\* sum of the durations of those entries.
C8_FirstMinNCap ==
  (pc = "check_count" /\ file # NoFile /\ WellFormed(file)) =>
    /\ count = Min(Len(file), MAX_INTERVALS)
    /\ StoredInOrder(file, count)
    /\ total_training_time = SumDurations(file, count)

\* a well formed file longer than the array has been loaded
C8_Witness ==
  /\ pc = "check_count"
  /\ file # NoFile
  /\ WellFormed(file)
  /\ Len(file) > MAX_INTERVALS
  /\ count = MAX_INTERVALS

(* ---------------- C9 ---------------- *)
\* C9: count never exceeds MAX_INTERVALS, and after the load the array holds
\* the first min(V, MAX_INTERVALS) of the V well formed lines of the file, in
\* order, whatever malformed lines lie between them.
C9_CapAndMalformedDropped ==
  /\ count <= MAX_INTERVALS
  /\ (pc = "check_count" /\ file # NoFile) =>
       /\ count = Min(Len(ValidLines(file)), MAX_INTERVALS)
       /\ StoredInOrder(ValidLines(file), count)

\* a file with malformed lines and more well formed lines than the array holds
C9_Witness ==
  /\ pc = "check_count"
  /\ file # NoFile
  /\ Len(ValidLines(file)) > MAX_INTERVALS
  /\ Len(ValidLines(file)) < Len(file)
  /\ count = MAX_INTERVALS

(* ---------------- C10 ---------------- *)
\* C10: a run that returns 0 with no skip, no quit key and no signal has
\* visited the indices 0..count-1 in order, has fired one alert for each of
\* them, and ends with elapsed_training_time = total_training_time.
C10_CompletedRun ==
  (pc = "exit" /\ exit_code = 0 /\ running /\ skipAt = {}) =>
    /\ visited = UpTo(count)
    /\ alerted = UpTo(count)
    /\ elapsed_training_time = total_training_time

(* ---------------- C11 ---------------- *)
\* the pcs from the start of an interval to the increment of current_interval
IntervalPcs ==
  { "while_inner", "draw_timer", "sleep", "dec_time", "inc_elapsed", "poll",
    "if_running", "flash_screen", "reset_audio", "play_beep", "beep_loop",
    "draw_completion_message", "next_interval" }

\* the seconds of the current interval that have been counted down
TicksRun == intervals[current_interval].duration - time_remaining

\* C11: within an interval elapsed_training_time has grown by the number of
\* ticks run in it (one less between the two statements of lines 119-120),
\* whether the interval is skipped or not, and the step that reads the skip
\* key leaves elapsed_training_time unchanged.
C11_SkipForfeitsRemaining ==
  [][/\ (pc = "poll" => elapsed_training_time' = elapsed_training_time)
     /\ (pc' \in IntervalPcs =>
           elapsed_training_time' - startElapsed' =
             TicksRun' - (IF pc' = "inc_elapsed" THEN 1 ELSE 0))]_vars

\* scenario B: skip read 2 seconds into Warmup (5 seconds)
C11_Witness ==
  /\ file = ScenarioA
  /\ pc = "if_running"
  /\ current_interval = 0
  /\ 0 \in skipAt
  /\ time_remaining = 3
  /\ elapsed_training_time = 2

(* ---------------- C12 ---------------- *)
IsMeaningful(e) ==
  \/ (e.type = "KeyPress" /\ e.len > 0 /\ e.ch \in QuitKeys \cup SkipKeys)
  \/ (e.type = "KeyPress" /\ e.len = 0 /\ e.sym = "XK_Escape")
  \/ (e.type = "ClientMessage" /\ e.sym = "WM_DELETE_WINDOW")

\* C12: a poll drains the queue and reports the last quit or skip key in it,
\* so no quit or skip key is ever left in the queue behind another event.
C12_PollLeavesNoMeaningfulKey ==
  \A i \in 1..Len(xqueue) : ~IsMeaningful(xqueue[i])

(* ---------------- C13 ---------------- *)
\* C13: every step leaves current_interval unchanged or adds exactly one.
C13_IndexOnlyIncrements ==
  [][\/ current_interval' = current_interval
     \/ current_interval' = current_interval + 1]_vars

\* both a skipped and an expired interval have been passed
C13_Witness ==
  /\ current_interval = 2
  /\ 0 \in skipAt
  /\ 1 \notin skipAt
  /\ alerted = << 0, 1 >>

(* ---------------- C14 ---------------- *)
\* C14: no step sets running; it is true initially, so it falls at most once.
C14_RunningMonotonic ==
  [][running' => running]_vars

\* running cleared by a signal during start-up, and the loop has been reached
C14_Witness ==
  /\ ~running
  /\ pc = "while_outer"
  /\ visited = << >>

(* ---------------- C15 ---------------- *)
\* C15: while an interval is being run (from the inner loop test to the
\* increment of line 142) the index is within 0..count, time_remaining is
\* within 0..duration of the current interval and the elapsed time is within
\* 0..total_training_time.
C15_SessionStateInRange ==
  pc \in IntervalPcs =>
    /\ 0 <= current_interval /\ current_interval <= count
    /\ 0 <= time_remaining
    /\ time_remaining <= intervals[current_interval].duration
    /\ 0 <= elapsed_training_time
    /\ elapsed_training_time <= total_training_time

(* ---------------- C16 ---------------- *)
LastTickDone == current_interval = count - 1 /\ time_remaining = 0

\* C16: elapsed / total never decreases (elapsed grows only over a positive
\* total), time_remaining / duration never increases within an interval, and
\* in a session without skip elapsed = total (fraction 1.0) holds exactly
\* when the last interval's time_remaining is 0.
C16_ProgressFractions ==
  [][/\ (elapsed_training_time' # elapsed_training_time /\ pc \in IntervalPcs =>
           /\ total_training_time > 0
           /\ elapsed_training_time' > elapsed_training_time)
     /\ (pc \in IntervalPcs /\ pc' \in IntervalPcs =>
           time_remaining' <= time_remaining)
     /\ (pc' \in { "poll", "if_running" } /\ skipAt' = {} =>
           ((elapsed_training_time' = total_training_time') <=> LastTickDone'))]_vars

(* ---------------- C17 ---------------- *)
AfterSetupAudioPcs ==
  IntervalPcs \cup { "prevent_screen_sleep", "init_elapsed", "while_outer",
                     "start_interval", "allow_screen_sleep", "cleanup_x11",
                     "cleanup_audio" }

\* setup_audio has returned without a usable device
AudioFailed == pc \in AfterSetupAudioPcs /\ acq["audio"] = rel["audio"]

\* C17: after a failed setup_audio the handle stays NULL and the device is
\* never opened again or written to, the program has not exited with an
\* error, and every interval passed so far got its flash and its advance.
C17_SilentAlertsAfterAudioFailure ==
  AudioFailed =>
    /\ ~audio_handle
    /\ acq["audio"] <= 1
    /\ pc # "beep_loop"
    /\ exit_code = -1
    /\ (pc = "while_outer" => alerted = UpTo(current_interval))
    /\ (pc \in AfterFlashPcs => alerted = UpTo(current_interval + 1))

\* hw_params or prepare failed, and the second interval has just been
\* flashed and is about to be advanced
C17_Witness ==
  /\ AudioFailed
  /\ acq["audio"] = 1
  /\ pc = "next_interval"
  /\ current_interval = 1
  /\ alerted = << 0, 1 >>
  /\ skipAt = {}

(* ---------------- C18 ---------------- *)
TickPcs == { "draw_timer", "sleep", "dec_time", "inc_elapsed", "poll" }

\* C18: within a tick control passes draw_timer, sleep, the decrement, the
\* increment and the poll in that order; the two counters change only at
\* their own step, by one, and the event queue is read only at the poll.
C18_TickOrder ==
  [][/\ (pc' # pc /\ pc' \in TickPcs =>
           \/ pc = "while_inner" /\ pc' = "draw_timer"
           \/ pc = "draw_timer" /\ pc' = "sleep"
           \/ pc = "sleep" /\ pc' = "dec_time"
           \/ pc = "dec_time" /\ pc' = "inc_elapsed"
           \/ pc = "inc_elapsed" /\ pc' = "poll")
     /\ (pc = "dec_time" /\ pc' # pc => time_remaining' = time_remaining - 1)
     /\ (pc = "inc_elapsed" /\ pc' # pc =>
           elapsed_training_time' = elapsed_training_time + 1)
     /\ (pc \in TickPcs \ { "dec_time" } => time_remaining' = time_remaining)
     /\ (pc \in TickPcs \ { "inc_elapsed" } =>
           elapsed_training_time' = elapsed_training_time)
     /\ (xqueue' # xqueue => pc = "poll")]_vars

\* scenario A: the poll of the second tick of Sprint (3 seconds)
C18_Witness ==
  /\ file = ScenarioA /\ pc = "poll" /\ current_interval = 1
  /\ time_remaining = 1 /\ elapsed_training_time = 7 /\ skipAt = {}

(* ---------------- C19 ---------------- *)
\* C19: a pass of the beep loop calls snd_pcm_writei once or twice, calls
\* snd_pcm_drain exactly when the last write succeeded, and whatever the
\* writes returned the loop ends after BEEP_COUNT passes with a return to
\* main, which goes on with draw_completion_message.
C19_WriteRetriedOnceFailureSwallowed ==
  [][/\ (pc' = "beep_loop" /\ beep' > 0 =>
           /\ writes' \in 1..2
           /\ drains' = IF frames' >= 0 THEN 1 ELSE 0)
     /\ (pc = "beep_loop" =>
           /\ beep' \in { beep, beep + 1, 0 }
           /\ beep <= BEEP_COUNT
           /\ exit_code' = exit_code
           /\ (pc' # pc => pc' = "draw_completion_message" /\ beep = BEEP_COUNT))]_vars

\* the last pass failed on both writes and play_beep is about to return
C19_Witness ==
  /\ pc = "beep_loop" /\ beep = BEEP_COUNT
  /\ frames < 0 /\ writes = 2 /\ drains = 0
  /\ running

(* ---------------- C20 ---------------- *)
\* the tick is fair: a step of the program that can be taken is taken
FairSpec == Spec /\ WF_vars(Next)

Terminates == <>(pc = "exit")

\* C20: a session that ran to its end has run at most total_training_time
\* ticks.
C20_TicksWithinTotal ==
  pc = "exit" /\ exit_code = 0 => elapsed_training_time <= total_training_time

(* ---------------- C21 ---------------- *)
\* C21: at the tests of the outer and of the inner loop the intervals
\* alerted so far are exactly 0 .. current_interval - 1; current_interval
\* changes only at line 142, and line 142 is reached only through
\* flash_screen, reset_audio, play_beep and draw_completion_message run in
\* that order for the current interval.
C21_AlertsMatchIndex ==
  [][/\ (pc' \in { "while_outer", "while_inner" } =>
           alerted' = UpTo(current_interval'))
     /\ (current_interval' # current_interval =>
           /\ pc = "next_interval"
           /\ alerted = UpTo(current_interval + 1))
     /\ (pc' # pc /\ pc' = "next_interval" => pc = "draw_completion_message")
     /\ (pc' # pc /\ pc' = "draw_completion_message" =>
           pc \in { "play_beep", "beep_loop" })
     /\ (pc' # pc /\ pc' = "play_beep" => pc = "reset_audio")
     /\ (pc' # pc /\ pc' = "reset_audio" =>
           pc = "flash_screen" /\ alerted' = Append(alerted, current_interval))
     /\ (alerted' # alerted => pc = "flash_screen")]_vars

\* scenario A: the loop test after Sprint was skipped and alerted
C21_Witness ==
  /\ file = ScenarioA /\ pc = "while_outer" /\ current_interval = 2
  /\ 1 \in skipAt /\ alerted = << 0, 1 >> /\ running

(* ---------------- C22 ---------------- *)
\* lines 113-114
minutes == time_remaining \div 60
seconds == time_remaining % 60

\* line 404: overall_progress is 1.0
OverallProgressIsOne ==
  total_training_time # 0 /\ elapsed_training_time = total_training_time

\* line 433: current_progress is 1.0
CurrentProgressIsOne ==
  intervals[current_interval].duration # 0 /\ time_remaining = 0

\* C22: a frame is drawn only for a loaded interval, with time_remaining in
\* 1 .. duration, a countdown other than 00:00 and both progress values
\* different from 1.0.
C22_FrameInRange ==
  pc = "draw_timer" =>
    /\ current_interval < count
    /\ 1 <= time_remaining
    /\ time_remaining <= intervals[current_interval].duration
    /\ ~(minutes = 0 /\ seconds = 0)
    /\ ~OverallProgressIsOne
    /\ ~CurrentProgressIsOne

====
